---- MODULE Spec2Model ----
(***************************************************************************)
(* A model of src/es/index.js: filterHeaders, formatRequest,               *)
(* stringifyRequest, formatResponse and stringifyResponse.                 *)
(*                                                                         *)
(* JavaScript values are tagged records.  Header maps are objects on a     *)
(* heap, so that aliasing (line 14 hands `headers` itself on when there is *)
(* no whitelist) and in-place writes can be told from fresh allocations.   *)
(* Header names and list entries are plain property names: lodash's        *)
(* property-path syntax ('.', '[') is outside the model.                   *)
(***************************************************************************)
EXTENDS Integers, Sequences, FiniteSets, TLC

VARIABLES heap, request, response, options, collab, op, result, consulted,
          snap, pc, frame

vars == <<heap, request, response, options, collab, op, result, consulted,
          snap, pc, frame>>

----------------------------------------------------------------------------
(* Bounds of the model *)

\* longest allow/deny list drawn as an input
MaxListLen == 2
\* number of concurrent callers in SpecConc
MaxCallers == 2

----------------------------------------------------------------------------
(* JavaScript values *)

Undef == [t |-> "undefined"]
Str(s) == [t |-> "string", s |-> s]
Num(n) == [t |-> "number", n |-> n]
Arr(q) == [t |-> "array", a |-> q]
Ref(addr) == [t |-> "ref", ref |-> addr]
Obj(f) == [t |-> "object", o |-> f]

\* ToBoolean, as used by `?:` and `||`
Truthy(v) ==
    CASE v.t = "undefined" -> FALSE
      [] v.t = "string" -> v.s /= ""
      [] v.t = "number" -> v.n /= 0
      [] OTHER -> TRUE

\* a || b
Or(a, b) == IF Truthy(a) THEN a ELSE b

Digit == <<"0", "1", "2", "3", "4", "5", "6", "7", "8", "9">>

RECURSIVE NumStr(_)
\* Number.prototype.toString for a natural number
NumStr(n) ==
    IF n < 10 THEN Digit[n + 1]
    ELSE NumStr(n \div 10) \o Digit[(n % 10) + 1]

\* ToString of a primitive, as a template literal or a property key does it
ToStr(v) ==
    CASE v.t = "undefined" -> "undefined"
      [] v.t = "string" -> v.s
      [] v.t = "number" -> NumStr(v.n)

\* obj.key: an object is an ordered list of <<name, value>> entries with
\* unique names, and the lookup is by name, wherever the entry stands
Prop(obj, key) ==
    IF \E i \in DOMAIN obj.o : obj.o[i][1] = key
    THEN obj.o[CHOOSE i \in DOMAIN obj.o : obj.o[i][1] = key][2]
    ELSE Undef

----------------------------------------------------------------------------
(* The heap of header-map objects *)

EmptyMap == [k \in {} |-> ""]

Callers == 1 .. MaxCallers

\* where request.headers and response.headers point
HeadersAddr == <<0, "headers">>

\* objects the caller owns (owner 0) and the objects a call allocates
InputAddrs == {HeadersAddr, <<0, "_headers">>, <<0, "parsed">>}
TempAddrs(c) == {<<c, "picked">>, <<c, "omitted">>, <<c, "empty">>}
Addrs == InputAddrs \cup UNION {TempAddrs(c) : c \in Callers}

\* one set of locals shared by every call, whoever makes it
SharedAddr(c, name) == <<1, name>>

\* the object a call of caller c allocates for its local `name`
NewAddr(c, name) == <<c, name>>

\* a call starts with none of its own objects allocated
NewFrame(h, c) == [a \in Addrs |-> IF a \in TempAddrs(c) THEN EmptyMap ELSE h[a]]

----------------------------------------------------------------------------
(* lodash pick and omit, as imported on line 3 *)

\* paths read only when they come as an array
castPathsArrayOnly(p) == IF p.t = "array" THEN p.a ELSE << >>

\* pick and omit take their paths as rest arguments flattened one level
\* (flatRest), so an array gives its elements and any other value that is
\* passed, an explicit `undefined` included, is one path
castPaths(p) == IF p.t = "array" THEN p.a ELSE <<p>>

\* toKey: a path that is not a string is converted as `value + ''`, so 1
\* names the property "1" and undefined the property "undefined"
toKey(v) == ToStr(v)

PathKeys(p) == {toKey(castPaths(p)[i]) : i \in DOMAIN castPaths(p)}

\* pick(object, paths): a new object with the listed properties that
\* `object` has; `object` is left as it is
pick(h, ref, paths, new) ==
    [heap |-> [h EXCEPT ![new] =
                  [k \in DOMAIN h[ref] \cap PathKeys(paths) |-> h[ref][k]]],
     ref |-> new]

\* a filter that deletes from the object it is given
omitInPlace(h, ref, paths, new) ==
    [heap |-> [h EXCEPT ![ref] =
                  [k \in DOMAIN h[ref] \ PathKeys(paths) |-> h[ref][k]]],
     ref |-> ref]

\* omit(object, paths): a new object, a copy of `object` from which the
\* listed properties are then removed; `object` is left as it is
omit(h, ref, paths, new) ==
    [heap |-> [h EXCEPT ![new] =
                  [k \in DOMAIN h[ref] \ PathKeys(paths) |-> h[ref][k]]],
     ref |-> new]

----------------------------------------------------------------------------
(* filterHeaders, lines 13-17 *)

\* the options read under the names allowHeaders and denyHeaders
DestructureSpecNames(opts) ==
    IF opts.t = "undefined"
    THEN [whitelistHeaders |-> Undef, blacklistHeaders |-> Undef]
    ELSE [whitelistHeaders |-> Prop(opts, "allowHeaders"),
          blacklistHeaders |-> Prop(opts, "denyHeaders")]

\* `{ whitelistHeaders, blacklistHeaders } = {}`: an omitted argument is {}
Destructure(opts) ==
    IF opts.t = "undefined"
    THEN [whitelistHeaders |-> Undef, blacklistHeaders |-> Undef]
    ELSE [whitelistHeaders |-> Prop(opts, "whitelistHeaders"),
          blacklistHeaders |-> Prop(opts, "blacklistHeaders")]

\* line 14
whitelistStep(h, c, headers, whitelistHeaders) ==
    IF Truthy(whitelistHeaders)
    THEN pick(h, headers, whitelistHeaders, NewAddr(c, "picked"))
    ELSE [heap |-> h, ref |-> headers]

\* line 15; blacklistHeaders is passed even when it is undefined
blacklistStep(h, c, whitelistedHeaders, blacklistHeaders) ==
    omit(h, whitelistedHeaders, blacklistHeaders, NewAddr(c, "omitted"))

filterHeaders(h, c, headers, opts) ==
    LET d == Destructure(opts)
        w == whitelistStep(h, c, headers, d.whitelistHeaders)
    IN  blacklistStep(w.heap, c, w.ref, d.blacklistHeaders)

----------------------------------------------------------------------------
(* formatRequest, lines 27-57 *)

\* the object literal { whitelistHeaders, blacklistHeaders } of lines 41, 90
PolicyLiteral(d) ==
    Obj(<< <<"whitelistHeaders", d.whitelistHeaders>>,
           <<"blacklistHeaders", d.blacklistHeaders>> >>)

\* a fallback on an absent url only, not on a falsy one
requestUrlNullish(req) ==
    IF Prop(req, "url").t = "undefined" THEN Prop(req, "path") ELSE Prop(req, "url")

\* line 36
requestUrl(req) == Or(Prop(req, "url"), Prop(req, "path"))

\* line 40; the literal {} is a new empty object of the call
requestReceivedHeaders(c, req) ==
    Or(Prop(req, "headers"), Or(Prop(req, "_headers"), Ref(NewAddr(c, "empty"))))

\* the socket read without its default
requestSocketNoDefault(req) == Prop(req, "socket")

\* line 43
requestSocket(req) == Or(Prop(req, "socket"), Obj(<< >>))

\* lines 46-56
requestRecord(req, url, headers, socket) ==
    [timestamp |-> Prop(req, "timestamp"),
     httpVersion |-> Prop(req, "httpVersion"),
     method |-> Prop(req, "method"),
     url |-> url,
     headers |-> Ref(headers),
     remoteAddress |-> Prop(socket, "remoteAddress"),
     remotePort |-> Prop(socket, "remotePort"),
     localAddress |-> Prop(socket, "localAddress"),
     localPort |-> Prop(socket, "localPort")]

formatRequest(h, c, req, opts) ==
    LET d == Destructure(opts)
        f == filterHeaders(h, c, requestReceivedHeaders(c, req).ref, PolicyLiteral(d))
        socket == requestSocket(req)
    IN  IF socket.t = "undefined"
        \* line 44: destructuring undefined is a TypeError
        THEN [kind |-> "throw", heap |-> f.heap, consulted |-> FALSE,
              value |-> Str("TypeError")]
        ELSE [kind |-> "return", heap |-> f.heap, consulted |-> FALSE,
              value |-> requestRecord(req, requestUrl(req), f.ref, socket)]

----------------------------------------------------------------------------
(* stringifyRequest, lines 72-75 *)

\* headers.host, the map being on the heap
HeaderValue(h, ref, name) ==
    IF name \in DOMAIN h[ref] THEN Str(h[ref][name]) ELSE Undef

stringifyRequest(h, c, req) ==
    LET method == Prop(req, "method")
        url == Prop(req, "url")
        \* `headers = {}`: the default stands in for undefined only
        headers == IF Prop(req, "headers").t = "undefined"
                   THEN Ref(NewAddr(c, "empty")) ELSE Prop(req, "headers")
    IN  [kind |-> "return", heap |-> h, consulted |-> FALSE,
         value |-> Str(ToStr(method) \o " " \o ToStr(HeaderValue(h, headers.ref, "host"))
                       \o ToStr(url))]

----------------------------------------------------------------------------
(* formatResponse, lines 85-102 *)

\* httpHeaders(response, true), the parser imported on line 2: it gives the
\* parsed map, or nothing, or fails; which one is the environment's choice
httpHeaders(how) ==
    CASE how = "parsed" -> [kind |-> "return", value |-> Ref(<<0, "parsed">>)]
      [] how = "falsy" -> [kind |-> "return", value |-> Undef]
      [] how = "throws" -> [kind |-> "throw", value |-> Str("parser failure")]

\* the parser called before response.headers is looked at
responseReceivedHeadersEager(c, res, how) ==
    IF httpHeaders(how).kind = "throw"
    THEN [kind |-> "throw", value |-> httpHeaders(how).value, consulted |-> TRUE]
    ELSE [kind |-> "return", consulted |-> TRUE,
          value |-> Or(Prop(res, "headers"),
                       Or(httpHeaders(how).value, Ref(NewAddr(c, "empty"))))]

\* line 89: the parser is reached only past a falsy response.headers, and
\* {} only past a falsy parse
responseReceivedHeaders(c, res, how) ==
    IF Truthy(Prop(res, "headers"))
    THEN [kind |-> "return", value |-> Prop(res, "headers"), consulted |-> FALSE]
    ELSE IF httpHeaders(how).kind = "throw"
    THEN [kind |-> "throw", value |-> httpHeaders(how).value, consulted |-> TRUE]
    ELSE [kind |-> "return", consulted |-> TRUE,
          value |-> Or(httpHeaders(how).value, Ref(NewAddr(c, "empty")))]

\* lines 96-101
responseRecord(res, headers) ==
    [timestamp |-> Prop(res, "timestamp"),
     statusCode |-> Prop(res, "statusCode"),
     headers |-> Ref(headers),
     responseTime |-> Prop(res, "responseTime")]

formatResponse(h, c, res, opts, how) ==
    LET d == Destructure(opts)
        r == responseReceivedHeaders(c, res, how)
        f == filterHeaders(h, c, r.value.ref, PolicyLiteral(d))
    IN  IF r.kind = "throw"
        \* nothing catches the parser's failure
        THEN [kind |-> "throw", heap |-> h, consulted |-> r.consulted,
              value |-> r.value]
        ELSE [kind |-> "return", heap |-> f.heap, consulted |-> r.consulted,
              value |-> responseRecord(res, f.ref)]

----------------------------------------------------------------------------
(* stringifyResponse, lines 117-121 *)

\* http.STATUS_CODES of Node.js (line 1), some of its entries
STATUS_CODES ==
    ("200" :> "OK") @@ ("201" :> "Created") @@ ("404" :> "Not Found")

\* an unknown code rendered as the empty string
statusMsgEmpty(statusCode) ==
    IF ToStr(statusCode) \in DOMAIN STATUS_CODES
    THEN Str(STATUS_CODES[ToStr(statusCode)]) ELSE Str("")

\* line 119: a property read, the status code being the property key
statusMsg(statusCode) ==
    IF ToStr(statusCode) \in DOMAIN STATUS_CODES
    THEN Str(STATUS_CODES[ToStr(statusCode)]) ELSE Undef

stringifyResponse(h, res) ==
    LET statusCode == Prop(res, "statusCode")
    IN  [kind |-> "return", heap |-> h, consulted |-> FALSE,
         value |-> Str(ToStr(statusCode) \o " (" \o ToStr(statusMsg(statusCode)) \o ")")]

----------------------------------------------------------------------------
(* Inputs *)

\* marks an attribute an input object does not have; not a JavaScript value
Absent == [t |-> "absent"]

\* an object with the listed entries, those marked Absent left out
MkObj(entries) == Obj(SelectSeq(entries, LAMBDA e : e[2] /= Absent))

HeaderNames == {"host", "authorization", "1", "undefined"}

HeaderValueOf ==
    ("host" :> "a.com") @@ ("authorization" :> "secret") @@ ("1" :> "one")
      @@ ("undefined" :> "u")

HeaderMaps == {[k \in S |-> HeaderValueOf[k]] : S \in SUBSET HeaderNames}

\* request._headers and the parser's result, told apart by their values
RawMap == ("host" :> "raw.com")
ParsedMap == ("host" :> "parsed.com") @@ ("authorization" :> "secret")

\* what an allow or deny list may hold: header names, and a number
ListElements == {Str("host"), Str("authorization"), Num(1)}

Lists ==
    {q \in UNION {[1 .. n -> ListElements] : n \in 0 .. MaxListLen} :
        \A i, j \in DOMAIN q : q[i] = q[j] => i = j}

\* the lists, and a bare string given in place of a list
ListValues == {Arr(q) : q \in Lists} \cup {Str("host")}

\* the option objects with the names wn and bn, in either order of the two
OptionObjects(wn, bn) ==
    {Obj(<< >>)}
      \cup {Obj(<< <<wn, a>> >>) : a \in ListValues}
      \cup {Obj(<< <<bn, d>> >>) : d \in ListValues}
      \cup {Obj(<< <<wn, a>>, <<bn, d>> >>) : a \in ListValues, d \in ListValues}
      \cup {Obj(<< <<bn, d>>, <<wn, a>> >>) : a \in ListValues, d \in ListValues}

AllOptions == {Undef} \cup OptionObjects("whitelistHeaders", "blacklistHeaders")

FewOptions ==
    {Undef,
     Obj(<< <<"blacklistHeaders", Arr(<<Str("authorization")>>)>> >>),
     Obj(<< <<"denyHeaders", Arr(<<Str("authorization")>>)>> >>),
     Obj(<< <<"whitelistHeaders", Arr(<<Str("host")>>)>> >>),
     Obj(<< <<"allowHeaders", Arr(<<Str("host")>>)>> >>),
     Obj(<< <<"whitelistHeaders", Arr(<<Str("host"), Str("authorization")>>)>>,
            <<"blacklistHeaders", Arr(<<Str("host")>>)>> >>)}

FullSocket ==
    Obj(<< <<"remoteAddress", Str("10.0.0.2")>>, <<"remotePort", Num(5000)>>,
           <<"localAddress", Str("10.0.0.1")>>, <<"localPort", Num(80)>> >>)

Sockets ==
    {Absent, Obj(<< >>), Obj(<< <<"remoteAddress", Str("10.0.0.2")>> >>), FullSocket}

\* request-like objects with any subset of the attributes formatRequest reads
Requests ==
    {MkObj(<< <<"httpVersion", hv>>, <<"method", m>>, <<"timestamp", ts>>,
              <<"url", u>>, <<"path", p>>, <<"headers", hd>>,
              <<"_headers", rh>>, <<"socket", so>> >>) :
        hv \in {Absent, Str("1.1")}, m \in {Absent, Str("GET")},
        ts \in {Absent, Num(7)},
        u \in {Absent, Str(""), Str("/path?foo=bar")},
        p \in {Absent, Str(""), Str("/x")},
        hd \in {Absent, Ref(<<0, "headers">>)},
        rh \in {Absent, Ref(<<0, "_headers">>)},
        so \in Sockets}

\* response-like objects with any subset of the attributes formatResponse reads
Responses ==
    {MkObj(<< <<"statusCode", sc>>, <<"headers", hd>>, <<"timestamp", ts>>,
              <<"responseTime", rt>> >>) :
        sc \in {Absent, Num(200), Num(201), Num(404), Num(999)},
        hd \in {Absent, Ref(<<0, "headers">>)},
        ts \in {Absent, Num(7)}, rt \in {Absent, Num(12)}}

ParserOutcomes == {"parsed", "falsy", "throws"}

DefaultRequest ==
    Obj(<< <<"method", Str("GET")>>, <<"url", Str("/path?foo=bar")>>,
           <<"headers", Ref(<<0, "headers">>)>> >>)

DefaultResponse ==
    Obj(<< <<"statusCode", Num(201)>>, <<"headers", Ref(<<0, "headers">>)>> >>)

\* the heap before any call: the caller's three header maps
InputHeap(headers) ==
    [a \in Addrs |->
        CASE a = <<0, "headers">> -> headers
          [] a = <<0, "_headers">> -> RawMap
          [] a = <<0, "parsed">> -> ParsedMap
          [] OTHER -> EmptyMap]

ExampleHeaders == [k \in {"host", "authorization", "1"} |-> HeaderValueOf[k]]

----------------------------------------------------------------------------
(* The sequential specification: any sequence of calls, one at a time *)

NoResult == [kind |-> "none", value |-> Undef]

NoFrame == [op |-> "none", opts |-> Undef, cur |-> <<0, "headers">>, out |-> NoResult]

InitRest ==
    /\ op = "none"
    /\ result = NoResult
    /\ consulted = FALSE
    /\ snap = [heap |-> heap, request |-> request, response |-> response,
               options |-> options]
    /\ pc = [c \in Callers |-> "idle"]
    /\ frame = [c \in Callers |-> NoFrame]

\* every header map against every policy
InitFilter ==
    /\ heap \in {InputHeap(m) : m \in HeaderMaps}
    /\ options \in AllOptions
    /\ request = DefaultRequest
    /\ response = DefaultResponse
    /\ collab = "parsed"

\* every request shape
InitRequest ==
    /\ heap \in {InputHeap(m) : m \in {EmptyMap, ExampleHeaders}}
    /\ options \in FewOptions
    /\ request \in Requests
    /\ response = DefaultResponse
    /\ collab = "parsed"

\* every response shape and every outcome of the parser
InitResponse ==
    /\ heap \in {InputHeap(m) : m \in {EmptyMap, ExampleHeaders}}
    /\ options \in FewOptions
    /\ request = DefaultRequest
    /\ response \in Responses
    /\ collab \in ParserOutcomes

Init == (InitFilter \/ InitRequest \/ InitResponse) /\ InitRest

\* a call made and run to its end: what it returns and what it leaves
Call(r) ==
    /\ heap' = r.heap
    /\ result' = [kind |-> r.kind, value |-> r.value]
    /\ consulted' = r.consulted
    /\ UNCHANGED <<request, response, options, collab, snap, pc, frame>>

FilterHeaders ==
    /\ op' = "filterHeaders"
    /\ LET f == filterHeaders(NewFrame(heap, 1), 1, HeadersAddr, options)
       IN  Call([kind |-> "return", heap |-> f.heap, consulted |-> FALSE,
                 value |-> Ref(f.ref)])

FormatRequest ==
    /\ op' = "formatRequest"
    /\ Call(formatRequest(NewFrame(heap, 1), 1, request, options))

StringifyRequest ==
    /\ op' = "stringifyRequest"
    /\ Call(stringifyRequest(NewFrame(heap, 1), 1, request))

FormatResponse ==
    /\ op' = "formatResponse"
    /\ Call(formatResponse(NewFrame(heap, 1), 1, response, options, collab))

StringifyResponse ==
    /\ op' = "stringifyResponse"
    /\ Call(stringifyResponse(NewFrame(heap, 1), response))

Next ==
    \/ FilterHeaders
    \/ FormatRequest
    \/ StringifyRequest
    \/ FormatResponse
    \/ StringifyResponse

Spec == Init /\ [][Next]_vars

----------------------------------------------------------------------------
(* The concurrent specification: callers whose calls interleave line by    *)
(* line.  A call's locals are its frame; the objects it allocates are its  *)
(* own; the request, the response and the caller's header maps are shared. *)

ConcOptions ==
    {Undef,
     Obj(<< <<"whitelistHeaders", Arr(<<Str("host")>>)>> >>),
     Obj(<< <<"blacklistHeaders", Arr(<<Str("authorization")>>)>> >>)}

InitConc ==
    /\ heap = InputHeap(ExampleHeaders)
    /\ options = Undef
    /\ request \in {DefaultRequest, Obj(<< <<"_headers", Ref(<<0, "_headers">>)>> >>)}
    /\ response \in {DefaultResponse, Obj(<< <<"statusCode", Num(999)>> >>)}
    /\ collab \in ParserOutcomes
    /\ InitRest

\* caller c moves to line `to` with its frame now f, the heap now h
Step(c, to, f, h) ==
    /\ pc' = [pc EXCEPT ![c] = to]
    /\ frame' = [frame EXCEPT ![c] = f]
    /\ heap' = h
    /\ UNCHANGED <<request, response, options, collab, op, result, consulted, snap>>

\* lines 27-40
BeginFormatRequest(c, o) ==
    /\ pc[c] = "idle"
    /\ Step(c, "line14",
            [op |-> "formatRequest", opts |-> o,
             cur |-> requestReceivedHeaders(c, request).ref, out |-> NoResult],
            NewFrame(heap, c))

\* lines 85-89
BeginFormatResponse(c, o) ==
    /\ pc[c] = "idle"
    /\ LET r == responseReceivedHeaders(c, response, collab)
       IN  IF r.kind = "throw"
           THEN Step(c, "done",
                     [op |-> "formatResponse", opts |-> o, cur |-> HeadersAddr,
                      out |-> [kind |-> "throw", value |-> r.value]],
                     NewFrame(heap, c))
           ELSE Step(c, "line14",
                     [op |-> "formatResponse", opts |-> o, cur |-> r.value.ref,
                      out |-> NoResult],
                     NewFrame(heap, c))

\* line 14, inside the filterHeaders call of line 41 or 90
Line14(c) ==
    /\ pc[c] = "line14"
    /\ LET w == whitelistStep(heap, c, frame[c].cur,
                              Destructure(frame[c].opts).whitelistHeaders)
       IN  Step(c, "line15", [frame[c] EXCEPT !.cur = w.ref], w.heap)

\* line 15
Line15(c) ==
    /\ pc[c] = "line15"
    /\ LET b == blacklistStep(heap, c, frame[c].cur,
                              Destructure(frame[c].opts).blacklistHeaders)
       IN  Step(c, "return", [frame[c] EXCEPT !.cur = b.ref], b.heap)

\* lines 43-56 and 94-101
Return(c) ==
    /\ pc[c] = "return"
    /\ LET socket == requestSocket(request)
           out == IF frame[c].op = "formatResponse"
                  THEN [kind |-> "return",
                        value |-> responseRecord(response, frame[c].cur)]
                  ELSE IF socket.t = "undefined"
                  THEN [kind |-> "throw", value |-> Str("TypeError")]
                  ELSE [kind |-> "return",
                        value |-> requestRecord(request, requestUrl(request),
                                                frame[c].cur, socket)]
       IN  Step(c, "done", [frame[c] EXCEPT !.out = out], heap)

\* lines 72-75, a call with no call inside it
StringifyRequestCall(c) ==
    /\ pc[c] = "idle"
    /\ LET r == stringifyRequest(NewFrame(heap, c), c, request)
       IN  Step(c, "done",
                [op |-> "stringifyRequest", opts |-> Undef, cur |-> HeadersAddr,
                 out |-> [kind |-> r.kind, value |-> r.value]],
                r.heap)

\* lines 117-121
StringifyResponseCall(c) ==
    /\ pc[c] = "idle"
    /\ LET r == stringifyResponse(NewFrame(heap, c), response)
       IN  Step(c, "done",
                [op |-> "stringifyResponse", opts |-> Undef, cur |-> HeadersAddr,
                 out |-> [kind |-> r.kind, value |-> r.value]],
                r.heap)

\* the caller takes the result and is free to call again
Finish(c) ==
    /\ pc[c] = "done"
    /\ Step(c, "idle", NoFrame, NewFrame(heap, c))

NextConc ==
    \E c \in Callers :
        \/ \E o \in ConcOptions : BeginFormatRequest(c, o)
        \/ \E o \in ConcOptions : BeginFormatResponse(c, o)
        \/ Line14(c)
        \/ Line15(c)
        \/ Return(c)
        \/ StringifyRequestCall(c)
        \/ StringifyResponseCall(c)
        \/ Finish(c)

SpecConc == InitConc /\ [][NextConc]_vars

----------------------------------------------------------------------------
(* What the claims speak of *)

\* the caller's header map as it was before any call
H0 == snap.heap[HeadersAddr]

Restrict(m, S) == [k \in DOMAIN m \cap S |-> m[k]]

IsStringList(v) == v.t = "array" /\ \A i \in DOMAIN v.a : v.a[i].t = "string"

WellFormedList(v) == v.t = "undefined" \/ IsStringList(v)

MalformedList(v) == v.t /= "undefined" /\ ~IsStringList(v)

\* the policy (A, D) of an options argument, under the names the code reads
PolicyA(o) == IF o.t = "undefined" THEN Undef ELSE Prop(o, "whitelistHeaders")
PolicyD(o) == IF o.t = "undefined" THEN Undef ELSE Prop(o, "blacklistHeaders")

StrNames(v) == {v.a[i].s : i \in DOMAIN v.a}

\* keys of m in A (all of them when A is absent) minus the keys in D
Filtered(m, A, D) ==
    Restrict(m, (IF A.t = "undefined" THEN DOMAIN m ELSE StrNames(A))
                  \ (IF D.t = "undefined" THEN {} ELSE StrNames(D)))

\* the same options object with its two entries in the other order
Swapped(o) ==
    IF o.t = "object" /\ Len(o.o) = 2 THEN Obj(<<o.o[2], o.o[1]>>) ELSE o

\* the map the last filterHeaders call returned
FilterOut == heap[result.value.ref]

\* the header map of the record the last normalizer call returned
RecordHeaders == heap[result.value.headers.ref]

Normalized == op \in {"formatRequest", "formatResponse"} /\ result.kind = "return"

\* the raw header map the fallback chains of lines 40 and 89 should choose
RequestRawAddr ==
    IF Prop(request, "headers") /= Undef THEN HeadersAddr
    ELSE IF Prop(request, "_headers") /= Undef THEN <<0, "_headers">>
    ELSE <<1, "empty">>

ResponseRawAddr ==
    IF Prop(response, "headers") /= Undef THEN HeadersAddr
    ELSE IF collab = "parsed" THEN <<0, "parsed">>
    ELSE <<1, "empty">>

RawAddr == IF op = "formatRequest" THEN RequestRawAddr ELSE ResponseRawAddr

Raw == snap.heap[RawAddr]

\* the options argument is an object with the one entry <<name, list>>
OnlyOption(name) ==
    /\ options.t = "object"
    /\ Len(options.o) = 1
    /\ options.o[1][1] = name
    /\ IsStringList(options.o[1][2])

----------------------------------------------------------------------------
(* C1: the header filter returns exactly the keys of H that are in A (all  *)
(* keys of H when A is absent) minus the keys in D, each with its value    *)
(* from H, whatever the order of A and D in the policy object.             *)
C1_FilterExact ==
    (op = "filterHeaders" /\ WellFormedList(PolicyA(options))
                          /\ WellFormedList(PolicyD(options)))
    => /\ result.kind = "return"
       /\ FilterOut = Filtered(H0, PolicyA(options), PolicyD(options))
       /\ LET g == filterHeaders(snap.heap, 1, HeadersAddr, Swapped(options))
          IN  g.heap[g.ref] = FilterOut

----------------------------------------------------------------------------
(* C2, as claimed: under the option names allowHeaders and denyHeaders, a  *)
(* normalizer called with {denyHeaders: D} returns the raw headers without *)
(* the keys in D, and with {allowHeaders: A} only keys in A survive.       *)
C2_SpecOptionNames ==
    Normalized
    => /\ OnlyOption("denyHeaders")
          => RecordHeaders = Restrict(Raw, DOMAIN Raw \ StrNames(options.o[1][2]))
       /\ OnlyOption("allowHeaders")
          => DOMAIN RecordHeaders \subseteq StrNames(options.o[1][2])

(* C2, amended: the names the normalizers read are whitelistHeaders and    *)
(* blacklistHeaders.  With {blacklistHeaders: D} the record's headers are  *)
(* the raw headers without the keys in D; with {whitelistHeaders: A} only  *)
(* keys of the raw headers in A survive, with their values; an options     *)
(* object that has only allowHeaders or denyHeaders filters as no options. *)
C2_CodeOptionNames ==
    Normalized
    => /\ OnlyOption("blacklistHeaders")
          => RecordHeaders = Restrict(Raw, DOMAIN Raw \ StrNames(options.o[1][2]))
       /\ OnlyOption("whitelistHeaders")
          => /\ DOMAIN RecordHeaders \subseteq DOMAIN Raw \cap StrNames(options.o[1][2])
             /\ \A k \in DOMAIN RecordHeaders : RecordHeaders[k] = Raw[k]
       /\ (OnlyOption("denyHeaders") \/ OnlyOption("allowHeaders"))
          => LET g == filterHeaders(snap.heap, 1, RawAddr, Undef)
             IN  RecordHeaders = g.heap[g.ref]

C2_Witness ==
    /\ op = "formatRequest"
    /\ result.kind = "return"
    /\ H0 = ExampleHeaders
    /\ Prop(request, "headers") /= Undef
    /\ options = Obj(<< <<"blacklistHeaders", Arr(<<Str("authorization")>>)>> >>)
    /\ RecordHeaders = [k \in {"host", "1"} |-> HeaderValueOf[k]]

----------------------------------------------------------------------------
RequestFields ==
    {"timestamp", "httpVersion", "method", "url", "headers", "remoteAddress",
     "remotePort", "localAddress", "localPort"}

ResponseFields == {"timestamp", "statusCode", "headers", "responseTime"}

SocketFields == {"remoteAddress", "remotePort", "localAddress", "localPort"}

\* the attribute is not among the object's entries
Lacks(obj, name) == \A i \in DOMAIN obj.o : obj.o[i][1] /= name

(* C3: for a request or response with any subset of the attributes and any *)
(* policy, the normalizers end in no error of their own: formatRequest     *)
(* always returns, formatResponse ends in an error only when the parser it *)
(* consulted failed, and the record returned has all nine (request) or     *)
(* four (response) fields, a field with no source attribute undefined and  *)
(* headers a map, the empty one when there is no header source.            *)
C3_NeverThrows ==
    /\ op = "formatRequest"
       => /\ result.kind = "return"
          /\ DOMAIN result.value = RequestFields
          /\ \A f \in {"timestamp", "httpVersion", "method"} :
                Lacks(request, f) => result.value[f] = Undef
          /\ (Lacks(request, "url") /\ Lacks(request, "path"))
                => result.value.url = Undef
          /\ \A f \in SocketFields :
                (Lacks(request, "socket") \/ Lacks(Prop(request, "socket"), f))
                   => result.value[f] = Undef
          /\ result.value.headers.t = "ref"
          /\ (Lacks(request, "headers") /\ Lacks(request, "_headers"))
                => RecordHeaders = EmptyMap
    /\ op = "formatResponse"
       => /\ result.kind = "throw"
             => (collab = "throws" /\ consulted /\ Lacks(response, "headers"))
          /\ result.kind = "return"
             => /\ DOMAIN result.value = ResponseFields
                /\ \A f \in {"timestamp", "statusCode", "responseTime"} :
                      Lacks(response, f) => result.value[f] = Undef
                /\ result.value.headers.t = "ref"
                /\ (Lacks(response, "headers") /\ collab = "falsy")
                      => RecordHeaders = EmptyMap

C3_Witness ==
    /\ op = "formatRequest"
    /\ request = Obj(<< >>)
    /\ options = Undef
    /\ result.kind = "return"
    /\ \A f \in RequestFields \ {"headers"} : result.value[f] = Undef
    /\ RecordHeaders = EmptyMap

----------------------------------------------------------------------------
Malformed ==
    MalformedList(PolicyA(options)) \/ MalformedList(PolicyD(options))

CoercedNames(v) ==
    IF v.t = "array"
    THEN {IF v.a[i].t = "number" THEN NumStr(v.a[i].n) ELSE v.a[i].s :
             i \in DOMAIN v.a}
    ELSE {v.s}

----------------------------------------------------------------------------
(* C5: no operation mutates its inputs: after any sequence of calls the    *)
(* request, the response, the policy and the caller's header maps are as   *)
(* they were before the first call, and a header map handed back is an     *)
(* object of the call's own, never one of the caller's.                    *)
C5_InputsUnchanged ==
    /\ \A a \in InputAddrs : heap[a] = snap.heap[a]
    /\ request = snap.request
    /\ response = snap.response
    /\ options = snap.options
    /\ op = "filterHeaders" => result.value.ref \notin InputAddrs
    /\ Normalized => result.value.headers.ref \notin InputAddrs

C5_Witness ==
    /\ op = "filterHeaders"
    /\ PolicyA(options) = Undef
    /\ PolicyD(options) = Arr(<<Str("host")>>)
    /\ H0 = ExampleHeaders
    /\ FilterOut = [k \in {"authorization", "1"} |-> HeaderValueOf[k]]
    /\ heap[HeadersAddr] = ExampleHeaders

----------------------------------------------------------------------------
(* C6: formatRequest takes request.headers when present, even if empty,    *)
(* the internal _headers only when headers is absent, and an empty map     *)
(* when neither is present; with no policy the record's headers equal that *)
(* raw map unfiltered.                                                     *)
C6_RequestHeadersFallback ==
    (op = "formatRequest" /\ result.kind = "return")
    => /\ DOMAIN RecordHeaders \subseteq DOMAIN snap.heap[RequestRawAddr]
       /\ options = Undef => RecordHeaders = snap.heap[RequestRawAddr]

----------------------------------------------------------------------------
(* C7: the url of the record is request.url when that is present and       *)
(* truthy, and request.path (undefined when absent) when url is absent or  *)
(* falsy.                                                                  *)
C7_UrlFallback ==
    (op = "formatRequest" /\ result.kind = "return")
    => IF ~Lacks(request, "url") /\ Prop(request, "url") /= Str("")
       THEN result.value.url = Prop(request, "url")
       ELSE IF Lacks(request, "path") THEN result.value.url = Undef
       ELSE result.value.url = Prop(request, "path")

C7_Witness ==
    /\ op = "formatRequest"
    /\ Lacks(request, "url")
    /\ Prop(request, "path") = Str("/x")
    /\ result.kind = "return"
    /\ result.value.url = Str("/x")

----------------------------------------------------------------------------
ExpectedSummary ==
    (200 :> "200 (OK)") @@ (201 :> "201 (Created)") @@ (404 :> "404 (Not Found)")
      @@ (999 :> "999 (undefined)")

(* C8: stringifyResponse returns "<statusCode> (<statusText>)" with the    *)
(* registry's reason phrase, 201 giving "201 (Created)"; a code with no    *)
(* entry, such as 999, ends in no error and renders the phrase as          *)
(* "undefined".                                                            *)
C8_StatusSummary ==
    (op = "stringifyResponse" /\ ~Lacks(response, "statusCode"))
    => /\ result.kind = "return"
       /\ result.value = Str(ExpectedSummary[Prop(response, "statusCode").n])

C8_Witness ==
    /\ op = "stringifyResponse"
    /\ Prop(response, "statusCode") = Num(999)
    /\ result = [kind |-> "return", value |-> Str("999 (undefined)")]

----------------------------------------------------------------------------

\* a call's outcome with the header map it refers to read off the heap h
View(h, opname, out) ==
    IF out.kind = "return" /\ opname \in {"formatRequest", "formatResponse"}
    THEN <<out.kind, [out.value EXCEPT !.headers = Undef], h[out.value.headers.ref]>>
    ELSE <<out.kind, out.value, EmptyMap>>

\* the call of caller c, run alone and to its end on the untouched inputs
Alone(c) ==
    CASE frame[c].op = "formatRequest" ->
           formatRequest(snap.heap, c, request, frame[c].opts)
      [] frame[c].op = "formatResponse" ->
           formatResponse(snap.heap, c, response, frame[c].opts, collab)
      [] frame[c].op = "stringifyRequest" -> stringifyRequest(snap.heap, c, request)
      [] frame[c].op = "stringifyResponse" -> stringifyResponse(snap.heap, response)

(* C9: the operations are reentrant: however the calls of concurrent       *)
(* callers interleave, every call returns what it returns when run alone   *)
(* on the same arguments, and no call writes anything another call or the  *)
(* caller reads: the objects a call works on are the caller's inputs, which *)
(* stay as they were, or objects of its own.                               *)
C9_Reentrant ==
    /\ \A a \in InputAddrs : heap[a] = snap.heap[a]
    /\ \A c \in Callers :
          /\ frame[c].cur \in InputAddrs \cup TempAddrs(c)
          /\ pc[c] = "done"
             => View(heap, frame[c].op, frame[c].out)
                  = View(Alone(c).heap, frame[c].op,
                         [kind |-> Alone(c).kind, value |-> Alone(c).value])

C9_Witness ==
    /\ pc[1] = "done"
    /\ frame[1].op = "formatRequest"
    /\ frame[1].opts = Obj(<< <<"whitelistHeaders", Arr(<<Str("host")>>)>> >>)
    /\ request = DefaultRequest
    /\ heap[frame[1].out.value.headers.ref] = ("host" :> "a.com")
    /\ pc[2] = "return"
    /\ frame[2].op = "formatResponse"
    /\ frame[2].opts = Obj(<< <<"blacklistHeaders", Arr(<<Str("authorization")>>)>> >>)

----------------------------------------------------------------------------
(* C10: formatResponse takes response.headers when present, and then does  *)
(* not consult the parser; otherwise the parser's result when that is not  *)
(* falsy; otherwise an empty map.  The chosen map goes with the policy     *)
(* through the header filter, and a failure of the parser is the call's    *)
(* outcome, unchanged.                                                     *)
C10_ResponseHeadersFallback ==
    op = "formatResponse"
    => /\ consulted = Lacks(response, "headers")
       /\ result.kind = "throw" <=> (Lacks(response, "headers") /\ collab = "throws")
       /\ result.kind = "throw" => result.value = httpHeaders("throws").value
       /\ result.kind = "return"
          => LET g == filterHeaders(snap.heap, 1, ResponseRawAddr,
                                    PolicyLiteral(Destructure(options)))
             IN  RecordHeaders = g.heap[g.ref]

C10_Witness ==
    /\ op = "formatResponse"
    /\ Lacks(response, "headers")
    /\ collab = "parsed"
    /\ options = Undef
    /\ consulted
    /\ result.kind = "return"
    /\ RecordHeaders = ParsedMap

====
